---- MODULE Spec2Model ----
(***************************************************************************)
(* Model of typeterm's terminal typing test (src/typeterm/tui.py): the     *)
(* TypingSession state machine, its metric projections, the word layout    *)
(* and scroll search of draw_words_area, and the driving loop of           *)
(* run_curses._main.                                                       *)
(*                                                                         *)
(* Strings are sequences of character codes, so chr/ord are the identity   *)
(* on a code and a key code can be appended to a typed string as it is.    *)
(* Time is the value time.time() returns, in whole seconds.                *)
(***************************************************************************)
EXTENDS Integers, Sequences, FiniteSets, TLC

VARIABLES
    cfg,              \* Config: mode, seconds, words
    words,            \* TypingSession.words: sequence of WordState records
    index,            \* TypingSession.index
    view_start,       \* TypingSession.view_start
    started_at,       \* TypingSession.started_at (None or a time)
    ended_at,         \* TypingSession.ended_at (None or a time)
    total_keystrokes,
    correct_chars,
    incorrect_chars,
    completed_words,
    now,              \* what time.time() returns
    raised,           \* exception raised by the last call ("None" if none)
    pc,               \* position of run_curses._main ("caller": no loop)
    last              \* the last operation performed (history)

vars == <<cfg, words, index, view_start, started_at, ended_at, total_keystrokes,
          correct_chars, incorrect_chars, completed_words, now, raised, pc, last>>

\* The fields of a TypingSession other than view_start.
fields == <<words, index, started_at, ended_at, total_keystrokes,
            correct_chars, incorrect_chars, completed_words>>

counters == <<total_keystrokes, correct_chars, incorrect_chars, completed_words>>

(***************************************************************************)
(* Bounds of the model.                                                    *)
(***************************************************************************)
MaxNow == 1           \* the clock runs over 0..MaxNow
MaxKeystrokes == 3    \* keys that count a keystroke are accepted below this
MaxSubmits == 2       \* submissions are accepted below this
\* Stand-ins for two literals of the source that no bounded run can reach:
\* the 200 words a time-mode session starts with and the 100 words of a
\* stream extension.
InitialTimeWords == 2
ExtendBatch == 1
MaxFailures == 2      \* failed scroll searches (each adds SearchCap to view_start)

(***************************************************************************)
(* Program constants.                                                      *)
(***************************************************************************)
None == -1                \* Python's None for started_at, ended_at, current_line
KEY_BACKSPACE == 263      \* curses.KEY_BACKSPACE
SearchCap == 1000         \* range(1000) of the scroll search
EpsInv == 1000000000      \* 1 / 1e-9, the floor of wpm()'s elapsed time

\* The word pool (wordlist.WORDS or a custom word list): "ab" and "a".
Pool == {<<97, 98>>, <<97>>}

\* Key codes handed to handle_key: the three backspace codes, the three
\* submit codes, the letters a and b, and codes outside every class (31 is
\* just below the printable range, 410 is curses.KEY_RESIZE).
Keys == {KEY_BACKSPACE, 127, 8, 10, 13, 32, 97, 98, 31, 410}

\* One key of each class, for the specifications about layout and the loop.
FewKeys == {KEY_BACKSPACE, 32, 97, 410}

Max(a, b) == IF a >= b THEN a ELSE b
Min(a, b) == IF a <= b THEN a ELSE b

(***************************************************************************)
(* Word Source: generate_words(count, seed, word_source) returns exactly   *)
(* count words drawn from the pool.                                        *)
(***************************************************************************)
generate_words(count) == [1..Max(count, 0) -> Pool]

WordState(w) == [target |-> w, typed |-> <<>>]

\* The configs: time mode reads seconds (and words only through the size of
\* the first batch), words mode reads words.
Seconds == {0, 1}
WordCounts == {0, 1, 2}
Configs ==
    [mode : {"time"}, seconds : Seconds, words : {2}]
    \cup [mode : {"words"}, seconds : {1}, words : WordCounts]

(***************************************************************************)
(* TypingSession.__init__: the session built for config c from the words   *)
(* ws the Word Source returned.  A session is a record; field raised holds *)
(* the exception the last call on it raised.                               *)
(***************************************************************************)
nwords(c) == IF c.mode = "time" THEN Max(c.words, InitialTimeWords) ELSE c.words

TypingSession(c, ws) ==
    [cfg |-> c,
     words |-> [i \in 1..Len(ws) |-> WordState(ws[i])],
     index |-> 0,
     view_start |-> 0,
     started_at |-> None,
     ended_at |-> None,
     total_keystrokes |-> 0,
     correct_chars |-> 0,
     incorrect_chars |-> 0,
     completed_words |-> 0,
     raised |-> "None"]

(***************************************************************************)
(* Metrics and state projections of a session s at time t                  *)
(***************************************************************************)
\* Variant: the not-started test is missing.
elapsed_unguarded(s, t) ==
    LET end == IF s.ended_at # None THEN s.ended_at ELSE t
    IN  Max(0, end - s.started_at)

elapsed(s, t) ==
    IF s.started_at = None THEN 0
    ELSE LET end == IF s.ended_at # None THEN s.ended_at ELSE t
         IN  Max(0, end - s.started_at)

is_running(s) == s.started_at # None /\ s.ended_at = None

is_finished(s) == s.ended_at # None

\* int(self.elapsed()) of a whole number of seconds is that number.
remaining_seconds(s, t) ==
    IF s.cfg.mode # "time" THEN 0
    ELSE Max(0, s.cfg.seconds - elapsed(s, t))

\* wpm() is the fraction (correct_chars / 5) / (max(elapsed, 1e-9) / 60),
\* kept as numerator and denominator: 12 * correct_chars over the elapsed
\* seconds, or over 1e-9 = 1 / EpsInv when the floor applies.
wpm(s, t) ==
    [num |-> 12 * s.correct_chars,
     den |-> IF elapsed(s, t) > 0 THEN <<elapsed(s, t), 1>> ELSE <<1, EpsInv>>]

\* accuracy() as a fraction num / den.
accuracy(s) ==
    LET total_chars == s.correct_chars + s.incorrect_chars
    IN  IF total_chars = 0 THEN [num |-> 100, den |-> 1]
        ELSE [num |-> s.correct_chars * 100, den |-> total_chars]

(***************************************************************************)
(* Keystroke handling                                                      *)
(***************************************************************************)
\* current_word() raises IndexError when index is past the list.
has_current_word(s) == s.index < Len(s.words)

current_word(s) == s.words[s.index + 1]

IndexError(s) == [s EXCEPT !.raised = "IndexError"]

\* Variant: the extension adds no word.
_extend_words_none(s, more) == s

_extend_words(s, more) ==
    [s EXCEPT !.words = s.words \o [i \in 1..Len(more) |-> WordState(more[i])]]

\* The loop over enumerate(typed): the positions counted correct, and the
\* number counted incorrect together with the characters of target left
\* untyped.
correct_positions(typed, target) ==
    {i \in 1..Len(typed) : i <= Len(target) /\ typed[i] = target[i]}

\* Variant: the untyped characters of target are not counted.
incorrect_count_no_shortfall(typed, target) ==
    Len(typed) - Cardinality(correct_positions(typed, target))

incorrect_count(typed, target) ==
    (Len(typed) - Cardinality(correct_positions(typed, target)))
    + (IF Len(typed) < Len(target) THEN Len(target) - Len(typed) ELSE 0)

\* Variant: > for >=.
reached_target_strict(s) ==
    s.cfg.mode = "words" /\ s.completed_words > s.cfg.words

\* The words-mode termination test.
reached_target(s) == s.cfg.mode = "words" /\ s.completed_words >= s.cfg.words

_submit_word(s, t, more) ==
    IF ~has_current_word(s) THEN IndexError(s)
    ELSE
    LET target == current_word(s).target
        typed == current_word(s).typed
        s1 == [s EXCEPT
                 !.correct_chars = @ + Cardinality(correct_positions(typed, target)),
                 !.incorrect_chars = @ + incorrect_count(typed, target),
                 !.completed_words = @ + 1,
                 !.index = @ + 1]
    IN  IF reached_target(s1)
        THEN [s1 EXCEPT !.ended_at = t]
        ELSE IF s1.index >= Len(s1.words)
        THEN _extend_words(s1, more)
        ELSE s1

is_backspace(ch) == ch \in {KEY_BACKSPACE, 127, 8}

is_submit(ch) == ch \in {10, 13, 32}

is_printable(ch) == 32 <= ch /\ ch <= 126

\* Variant: the first character is removed.
drop_first(typed) == SubSeq(typed, 2, Len(typed))

\* Removing the last character of typed.
drop_last(typed) == SubSeq(typed, 1, Len(typed) - 1)

\* Variant: a removed character is counted as a mistake.
backspace_penalised(s) ==
    IF ~has_current_word(s) THEN IndexError(s)
    ELSE IF current_word(s).typed # <<>>
    THEN [s EXCEPT !.words[s.index + 1].typed = drop_last(@),
                   !.total_keystrokes = @ + 1,
                   !.incorrect_chars = @ + 1]
    ELSE s

backspace(s) ==
    IF ~has_current_word(s) THEN IndexError(s)
    ELSE IF current_word(s).typed # <<>>
    THEN [s EXCEPT !.words[s.index + 1].typed = drop_last(@),
                   !.total_keystrokes = @ + 1]
    ELSE s

\* Variant: the keystroke is not counted.
printable_uncounted(s, ch) ==
    IF ~has_current_word(s) THEN IndexError(s)
    ELSE [s EXCEPT !.words[s.index + 1].typed = Append(@, ch)]

printable(s, ch) ==
    IF ~has_current_word(s) THEN IndexError(s)
    ELSE [s EXCEPT !.words[s.index + 1].typed = Append(@, ch),
                   !.total_keystrokes = @ + 1]

\* handle_key past its is_finished test: more is what the Word Source
\* returns if the stream is extended.
key_dispatch(s, ch, t, more) ==
    LET s1 == IF s.started_at = None THEN [s EXCEPT !.started_at = t] ELSE s
    IN  IF is_backspace(ch) THEN backspace(s1)
        ELSE IF is_submit(ch) THEN _submit_word(s1, t, more)
        ELSE IF is_printable(ch) THEN printable(s1, ch)
        ELSE s1

\* Variant: the is_finished test is missing.
handle_key_unguarded(s, ch, t, more) == key_dispatch(s, ch, t, more)

handle_key(s, ch, t, more) ==
    IF is_finished(s) THEN s ELSE key_dispatch(s, ch, t, more)

\* Whether handle_key(ch) reaches _extend_words, and so calls the Word Source.
calls_extend(s, ch) ==
    /\ ~is_finished(s)
    /\ is_submit(ch)
    /\ has_current_word(s)
    /\ ~reached_target([s EXCEPT !.completed_words = @ + 1])
    /\ s.index + 1 >= Len(s.words)

\* Variant: > for >=.
tick_strict(s, t) ==
    IF s.cfg.mode = "time" /\ is_running(s) /\ elapsed(s, t) > s.cfg.seconds
    THEN [s EXCEPT !.ended_at = t]
    ELSE s

tick(s, t) ==
    IF s.cfg.mode = "time" /\ is_running(s) /\ elapsed(s, t) >= s.cfg.seconds
    THEN [s EXCEPT !.ended_at = t]
    ELSE s

(***************************************************************************)
(* Layout and scroll search of draw_words_area                             *)
(***************************************************************************)
\* One iteration of layout's while loop and the iterations after it.
RECURSIVE layout_loop(_, _, _, _, _, _, _, _)
layout_loop(s, idx, y, x0, positions, current_line, height, width) ==
    IF ~(y < height /\ idx < Len(s.words))
    THEN [positions |-> positions, current_line |-> current_line]
    ELSE
    LET w == s.words[idx + 1].target
        need_space == IF x0 > 0 THEN 1 ELSE 0
        wraps == x0 + need_space + Len(w) > width
        y1 == IF wraps THEN y + 1 ELSE y
        x1 == (IF wraps THEN 0 ELSE x0) + (IF wraps THEN 0 ELSE need_space)
    IN  IF wraps /\ y1 >= height
        THEN [positions |-> positions, current_line |-> current_line]
        ELSE layout_loop(s, idx + 1, y1, x1 + Len(w),
                         Append(positions, <<idx, y1, x1>>),
                         IF idx = s.index THEN y1 ELSE current_line,
                         height, width)

\* Variant: the first row starts at column 1.
layout_indented(s, start_idx, height, width) ==
    layout_loop(s, start_idx, 0, 1, <<>>, None, height, width)

layout(s, start_idx, height, width) ==
    layout_loop(s, start_idx, 0, 0, <<>>, None, height, width)

\* The test that ends the scroll search at candidate start_idx.
search_accepts(s, start_idx, height, width) ==
    LET cur_line == layout(s, start_idx, height, width).current_line
    IN  cur_line # None /\ cur_line < height

\* The first candidate of lo..hi, in order, that the search accepts (None if
\* there is none).  The candidates are tried in the order of the for loop;
\* the range is halved only to keep the evaluation shallow.
RECURSIVE first_accepted(_, _, _, _, _)
first_accepted(s, lo, hi, height, width) ==
    IF lo > hi THEN None
    ELSE IF lo = hi
    THEN (IF search_accepts(s, lo, height, width) THEN lo ELSE None)
    ELSE LET mid == (lo + hi) \div 2
             left == first_accepted(s, lo, mid, height, width)
         IN  IF left # None THEN left
             ELSE first_accepted(s, mid + 1, hi, height, width)

\* Variant: the search starts from word 0 instead of the stored start.
scroll_search_from_zero(s, height, width) ==
    LET found == first_accepted(s, 0, Min(SearchCap - 1, Len(s.words) - 1),
                                height, width)
    IN  IF found # None THEN found ELSE SearchCap

\* Variant: the search keeps the stored start.
scroll_search_stuck(s, height, width) == s.view_start

\* The for loop over range(1000): the value start_idx ends with.  A candidate
\* at or past len(words) is never accepted (layout's while loop does not run,
\* so current_line stays None); those candidates are not laid out here.
scroll_search(s, height, width) ==
    LET last_candidate == s.view_start + SearchCap - 1
        found == first_accepted(s, s.view_start,
                                Min(last_candidate, Len(s.words) - 1),
                                height, width)
    IN  IF found # None THEN found ELSE s.view_start + SearchCap

draw_words_area(s, height, width) ==
    [s EXCEPT !.view_start = scroll_search(s, height, width)]

\* The words the pass draws, as (word index, row, column).
drawn(s, height, width) == layout(s, s.view_start, height, width).positions

\* Sizes of the typing area: height, width.
Viewports == [height : {0, 1, 2}, width : {1, 2, 5}]

longest(ws) == IF ws = <<>> THEN 0
               ELSE CHOOSE n \in {Len(ws[i].target) : i \in 1..Len(ws)} :
                        \A i \in 1..Len(ws) : Len(ws[i].target) <= n

\* The viewports the scroll invariant is stated for.
FitViewports(s) ==
    {vp \in Viewports : vp.height >= 1 /\ vp.width >= longest(s.words)}

(***************************************************************************)
(* The session held in the variables, and storing one back.                *)
(***************************************************************************)
Session ==
    [cfg |-> cfg, words |-> words, index |-> index, view_start |-> view_start,
     started_at |-> started_at, ended_at |-> ended_at,
     total_keystrokes |-> total_keystrokes, correct_chars |-> correct_chars,
     incorrect_chars |-> incorrect_chars, completed_words |-> completed_words,
     raised |-> "None"]

Store(s) ==
    /\ cfg' = s.cfg
    /\ words' = s.words
    /\ index' = s.index
    /\ view_start' = s.view_start
    /\ started_at' = s.started_at
    /\ ended_at' = s.ended_at
    /\ total_keystrokes' = s.total_keystrokes
    /\ correct_chars' = s.correct_chars
    /\ incorrect_chars' = s.incorrect_chars
    /\ completed_words' = s.completed_words
    /\ raised' = s.raised

\* A key is taken while the counter it advances is below its bound.
WithinBounds(ch) ==
    IF is_finished(Session) \/ ~has_current_word(Session) THEN TRUE
    ELSE IF is_backspace(ch)
    THEN current_word(Session).typed # <<>> => total_keystrokes < MaxKeystrokes
    ELSE IF is_submit(ch) THEN completed_words < MaxSubmits
    ELSE IF is_printable(ch) THEN total_keystrokes < MaxKeystrokes
    ELSE TRUE

\* What the Word Source may return during handle_key(ch): a fresh batch when
\* the stream is extended, nothing (it is not called) otherwise.
Draws(ch) ==
    IF calls_extend(Session, ch) THEN generate_words(ExtendBatch) ELSE {<<>>}

(***************************************************************************)
(* A caller of the TypingSession methods (no driving loop)                 *)
(***************************************************************************)
Init ==
    /\ \E c \in Configs : \E ws \in generate_words(nwords(c)) :
           /\ cfg = c
           /\ words = TypingSession(c, ws).words
    /\ index = 0
    /\ view_start = 0
    /\ started_at = None
    /\ ended_at = None
    /\ total_keystrokes = 0
    /\ correct_chars = 0
    /\ incorrect_chars = 0
    /\ completed_words = 0
    /\ now = 0
    /\ raised = "None"
    /\ pc = "caller"
    /\ last = "init"

CallHandleKey(ch) ==
    /\ WithinBounds(ch)
    /\ \E more \in Draws(ch) : Store(handle_key(Session, ch, now, more))
    /\ last' = "handle_key"
    /\ UNCHANGED <<now, pc>>

CallTick ==
    /\ Store(tick(Session, now))
    /\ last' = "tick"
    /\ UNCHANGED <<now, pc>>

\* time.time() advances.
Advance ==
    /\ now < MaxNow
    /\ now' = now + 1
    /\ UNCHANGED <<cfg, words, index, view_start, started_at, ended_at,
                   total_keystrokes, correct_chars, incorrect_chars,
                   completed_words, raised, pc, last>>

Next ==
    \/ \E ch \in Keys : CallHandleKey(ch)
    \/ CallTick
    \/ Advance

Spec == Init /\ [][Next]_vars

(***************************************************************************)
(* The same caller, also running layout passes, each with a viewport that  *)
(* fits (height >= 1, width >= the longest word).                          *)
(***************************************************************************)
CallDrawWordsArea(vp) ==
    /\ LET s1 == draw_words_area(Session, vp.height, vp.width)
       IN  s1.view_start \div SearchCap <= MaxFailures /\ Store(s1)
    /\ last' = "draw_words_area"
    /\ UNCHANGED <<now, pc>>

NextFit ==
    \/ \E ch \in FewKeys : CallHandleKey(ch)
    \/ \E vp \in FitViewports(Session) : CallDrawWordsArea(vp)

SpecFit == Init /\ [][NextFit]_vars

(***************************************************************************)
(* The same caller, running layout passes with any viewport (a viewport of *)
(* height 0 or narrower than a word included).                             *)
(***************************************************************************)
\* The keys of this specification: a submit key and a letter.
DrawKeys == {32, 97}

NextDraw ==
    \/ \E ch \in DrawKeys : CallHandleKey(ch)
    \/ \E vp \in Viewports : CallDrawWordsArea(vp)

SpecDraw == Init /\ [][NextDraw]_vars

(***************************************************************************)
(* The driving loop run_curses._main                                       *)
(***************************************************************************)
\* stdscr.getmaxyx(): the terminal sizes; render gives the typing area
\* height h - 4 and width w - 2.
TermSizes == [h : {4, 5, 6}, w : {3, 4, 7}]

FitTermSizes(s) ==
    {sz \in TermSizes : [height |-> sz.h - 4, width |-> sz.w - 2] \in FitViewports(s)}

render(s, sz) ==
    IF s.started_at = None THEN s
    ELSE IF is_finished(s) THEN s
    ELSE draw_words_area(s, sz.h - 4, sz.w - 2)

LoopInit(configs) ==
    /\ \E c \in configs : \E ws \in generate_words(nwords(c)) :
           /\ cfg = c
           /\ words = TypingSession(c, ws).words
    /\ index = 0
    /\ view_start = 0
    /\ started_at = None
    /\ ended_at = None
    /\ total_keystrokes = 0
    /\ correct_chars = 0
    /\ incorrect_chars = 0
    /\ completed_words = 0
    /\ now = 0
    /\ raised = "None"
    /\ pc = "render"
    /\ last = "init"

Render(sz) ==
    /\ pc = "render"
    /\ LET s1 == render(Session, sz)
       IN  s1.view_start \div SearchCap <= MaxFailures /\ Store(s1)
    /\ pc' = "getch"
    /\ last' = "render"
    /\ UNCHANGED now

\* getch() returns -1: the periodic tick.
IdleTick ==
    /\ pc = "getch"
    /\ Store(tick(Session, now))
    /\ pc' = "render"
    /\ last' = "idle"
    /\ UNCHANGED now

\* ESC, or a KeyboardInterrupt during getch().
Quit ==
    /\ pc = "getch"
    /\ pc' = "exit"
    /\ last' = "quit"
    /\ UNCHANGED <<cfg, words, index, view_start, started_at, ended_at,
                   total_keystrokes, correct_chars, incorrect_chars,
                   completed_words, raised, now>>

\* Variant: the session is reset in place and view_start is forgotten.
Restart_in_place(ch) ==
    /\ pc = "getch"
    /\ ch = 9 \/ is_finished(Session)
    /\ \E ws \in generate_words(nwords(cfg)) :
           Store([TypingSession(cfg, ws) EXCEPT !.view_start = view_start])
    /\ pc' = "render"
    /\ last' = IF ch = 9 THEN "restart" ELSE "restart_finished"
    /\ UNCHANGED now

\* TAB ("restart"), or any other key (ESC apart) on a finished session
\* ("restart_finished").
Restart(ch) ==
    /\ pc = "getch"
    /\ ch = 9 \/ is_finished(Session)
    /\ \E ws \in generate_words(nwords(cfg)) : Store(TypingSession(cfg, ws))
    /\ pc' = "render"
    /\ last' = IF ch = 9 THEN "restart" ELSE "restart_finished"
    /\ UNCHANGED now

\* Variant: tick is not called after handle_key.
Key_without_tick(ch) ==
    /\ pc = "getch"
    /\ ch # 9
    /\ ~is_finished(Session)
    /\ WithinBounds(ch)
    /\ \E more \in Draws(ch) :
           LET s1 == handle_key(Session, ch, now, more)
           IN  IF s1.raised # "None"
               THEN Store(s1) /\ pc' = "exit"
               ELSE Store(s1) /\ pc' = "render"
    /\ last' = "key"
    /\ UNCHANGED now

\* Any other key on a session that is not finished: handle_key, then tick.
\* An exception leaves the loop.
Key(ch) ==
    /\ pc = "getch"
    /\ ch # 9
    /\ ~is_finished(Session)
    /\ WithinBounds(ch)
    /\ \E more \in Draws(ch) :
           LET s1 == handle_key(Session, ch, now, more)
           IN  IF s1.raised # "None"
               THEN Store(s1) /\ pc' = "exit"
               ELSE Store(tick(s1, now)) /\ pc' = "render"
    /\ last' = "key"
    /\ UNCHANGED now

\* What getch() may return, and the branch of the loop taken for it.
Getch(keys) ==
    \/ IdleTick
    \/ Quit
    \/ \E ch \in keys \cup {9} : Restart(ch)
    \/ \E ch \in keys : Key(ch)

LoopNext ==
    \/ \E sz \in TermSizes : Render(sz)
    \/ Getch(FewKeys)
    \/ Advance

LoopSpec == LoopInit(Configs) /\ [][LoopNext]_vars

(***************************************************************************)
(* The loop in time mode on a terminal whose typing area fits, with the    *)
(* fairness its scheduling gives: render returns, getch() returns within   *)
(* its 50 ms timeout (a key or -1), and time advances.                     *)
(***************************************************************************)
TimeConfigs == {c \in Configs : c.mode = "time"}

RenderFit == \E sz \in FitTermSizes(Session) : Render(sz)

\* The key of this specification: a letter.
LiveKeys == {97}

LoopFitNext ==
    \/ RenderFit
    \/ Getch(LiveKeys)
    \/ Advance

LoopFair ==
    /\ LoopInit(TimeConfigs)
    /\ [][LoopFitNext]_vars
    /\ WF_vars(RenderFit)
    /\ WF_vars(Getch(LiveKeys))
    /\ WF_vars(Advance)

(***************************************************************************)
(*                               Claims                                    *)
(***************************************************************************)
BackspaceCodes == {ch \in Keys : is_backspace(ch)}
SubmitCodes == {ch \in Keys : is_submit(ch)}
IgnoredCodes ==
    {ch \in Keys : ~is_backspace(ch) /\ ~is_submit(ch) /\ ~is_printable(ch)}

(***************************************************************************)
(* C1. Once the session is Finished, handle_key with any key code and tick *)
(* leave every session field unchanged: the words and typed strings,       *)
(* index, the four counters, started_at and ended_at.                      *)
(***************************************************************************)
C1_FinishedIsFrozen == [][is_finished(Session) => UNCHANGED fields]_vars

\* handle_key has run on a Finished session (in time mode only tick sets
\* ended_at), at a time later than ended_at.
C1_Witness ==
    /\ cfg.mode = "time"
    /\ is_finished(Session)
    /\ last = "handle_key"
    /\ now > ended_at

(***************************************************************************)
(* C2. In words mode with target N >= 1 the session is Finished exactly    *)
(* when N words have been submitted, whatever the elapsed time: it         *)
(* finishes with the N-th submission and nothing finishes it earlier.      *)
(***************************************************************************)
C2_WordsModeTermination ==
    (cfg.mode = "words" /\ cfg.words >= 1) =>
        /\ is_finished(Session) <=> completed_words >= cfg.words
        /\ completed_words <= cfg.words

\* The second of two words was submitted a second after the start.
C2_Witness ==
    /\ cfg.mode = "words"
    /\ cfg.words = 2
    /\ completed_words = 2
    /\ is_finished(Session)
    /\ ended_at > started_at

(***************************************************************************)
(* C3 as stated. In time mode with seconds = 0 the session becomes         *)
(* Finished on an idle tick, with no word submitted.                       *)
(***************************************************************************)
C3_FirstIdleTickFinishes ==
    [][(cfg.mode = "time" /\ cfg.seconds = 0
        /\ ~is_finished(Session) /\ is_finished(Session)')
       => (last' = "idle" /\ completed_words' = 0)]_vars

(***************************************************************************)
(* C3 as amended. In time mode with seconds = 0 the keystroke that starts  *)
(* the session also finishes it, in the same loop iteration (the tick that *)
(* follows handle_key sees elapsed 0 >= 0); completed_words is then 1 if   *)
(* that keystroke was a submit key and 0 otherwise, and idle ticks change  *)
(* nothing.                                                                *)
(***************************************************************************)
C3_StartingKeyFinishes ==
    [][(cfg.mode = "time" /\ cfg.seconds = 0) =>
        /\ \A ch \in FewKeys :
               (started_at = None /\ Key(ch)) =>
                   /\ started_at' # None
                   /\ is_finished(Session)'
                   /\ completed_words' = (IF is_submit(ch) THEN 1 ELSE 0)
        /\ IdleTick => UNCHANGED fields]_vars

\* The session was started by a submit key and is Finished with one word.
C3_Witness ==
    /\ cfg.mode = "time"
    /\ cfg.seconds = 0
    /\ last = "key"
    /\ is_finished(Session)
    /\ completed_words = 1
    /\ total_keystrokes = 0

\* A running session whose deadline started_at + seconds the clock of the
\* model (which stops at MaxNow) can reach.
C4_Due == is_running(Session) /\ started_at + cfg.seconds <= MaxNow

(***************************************************************************)
(* C4. In time mode a started session eventually becomes Finished without  *)
(* any further keystroke (it also stops running when the user restarts or  *)
(* quits), and an idle tick that observes elapsed >= seconds on a running  *)
(* session finishes it.                                                    *)
(***************************************************************************)
C4_TimeModeFinishes ==
    /\ C4_Due ~> (is_finished(Session) \/ started_at = None \/ pc = "exit")
    /\ [][(IdleTick /\ is_running(Session)
            /\ elapsed(Session, now) >= cfg.seconds)
          => is_finished(Session)']_vars

\* A session with seconds = 1 was finished by an idle tick, one second after
\* the only key it received.
C4_Witness ==
    /\ cfg.seconds = 1
    /\ total_keystrokes = 1
    /\ last = "idle"
    /\ is_finished(Session)
    /\ ended_at = started_at + 1

\* The positions below min(len t, len g) at which t and g agree.
matches(t, g) == Cardinality({i \in 1..Min(Len(t), Len(g)) : t[i] = g[i]})

(***************************************************************************)
(* C5. A submission with typed string t and target g adds to correct_chars *)
(* the number of positions below min(len t, len g) where t and g agree,    *)
(* adds to incorrect_chars max(len t, len g) minus that number, and adds   *)
(* one to completed_words and to index; the empty submission included.     *)
(***************************************************************************)
C5_SubmissionAccounting ==
    [][\A ch \in SubmitCodes :
        (~is_finished(Session) /\ has_current_word(Session) /\ CallHandleKey(ch))
        => LET t == words[index + 1].typed
               g == words[index + 1].target
           IN  /\ correct_chars' = correct_chars + matches(t, g)
               /\ incorrect_chars' =
                      incorrect_chars + Max(Len(t), Len(g)) - matches(t, g)
               /\ completed_words' = completed_words + 1
               /\ index' = index + 1]_vars

\* "ab" was submitted for target "a" (one correct, one extra), then the
\* empty string for target "ab" (two untyped).
C5_Witness ==
    /\ completed_words = 2
    /\ words[1] = [target |-> <<97>>, typed |-> <<97, 98>>]
    /\ words[2] = [target |-> <<97, 98>>, typed |-> <<>>]
    /\ correct_chars = 1
    /\ incorrect_chars = 3

\* The range of index.
C6_IndexInRange ==
    cfg.words >= 1 =>
        /\ index <= Len(words)
        /\ ~is_finished(Session) => index < Len(words)

(***************************************************************************)
(* C6. For a config with words >= 1: index never decreases, index <=       *)
(* len(words) always, index < len(words) whenever the session is not       *)
(* Finished, and the list grows only by a submission that moves index to   *)
(* its end without finishing, by one batch.                                *)
(***************************************************************************)
C6_IndexAndStream ==
    /\ []C6_IndexInRange
    /\ [][cfg.words >= 1 =>
            /\ index' >= index
            /\ Len(words') # Len(words) =>
                   /\ Len(words') = Len(words) + ExtendBatch
                   /\ index' = Len(words)
                   /\ ~is_finished(Session)']_vars

\* The stream was extended by the submission of the last word of the first
\* batch.
C6_Witness ==
    /\ cfg.mode = "time"
    /\ index = InitialTimeWords
    /\ Len(words) = InitialTimeWords + ExtendBatch
    /\ ~is_finished(Session)

\* The rows at which the session's layout, from its view_start, draws word i.
rows_of(s, i, vp) ==
    LET ps == drawn(s, vp.height, vp.width)
    IN  {ps[k][2] : k \in {j \in DOMAIN ps : ps[j][1] = i}}

C8_IgnoredKeyChangesNothing ==
    [][\A ch \in IgnoredCodes : CallHandleKey(ch) => UNCHANGED fields]_vars

(***************************************************************************)
(* C9. Backspace on a session that is not Finished: if the current word's  *)
(* typed is non-empty its last character is removed and total_keystrokes   *)
(* grows by one; if it is empty the word list, index and counters are      *)
(* unchanged.  Index never changes and no entry other than words[index]    *)
(* is modified.                                                            *)
(***************************************************************************)
C9_Backspace ==
    [][\A ch \in BackspaceCodes :
        (~is_finished(Session) /\ CallHandleKey(ch))
        => /\ index' = index
           /\ Len(words') = Len(words)
           /\ \A i \in 1..Len(words) : i # index + 1 => words'[i] = words[i]
           /\ <<correct_chars, incorrect_chars, completed_words>>'
                  = <<correct_chars, incorrect_chars, completed_words>>
           /\ IF has_current_word(Session) /\ words[index + 1].typed # <<>>
              THEN LET t == words[index + 1].typed
                   IN  /\ Append(words'[index + 1].typed, t[Len(t)]) = t
                       /\ words'[index + 1].target = words[index + 1].target
                       /\ total_keystrokes' = total_keystrokes + 1
              ELSE words' = words /\ total_keystrokes' = total_keystrokes]_vars

\* "ab" was typed into the second word and the b removed; the first word
\* was submitted empty.
C9_Witness ==
    /\ last = "handle_key"
    /\ index = 1
    /\ has_current_word(Session)
    /\ total_keystrokes = 3
    /\ words[1].typed = <<>>
    /\ words[2].typed = <<97>>

\* The values of the projections.
C10_Values ==
    /\ wpm(Session, now).den[1] > 0
    /\ accuracy(Session).den > 0
    /\ remaining_seconds(Session, now) >= 0
    /\ started_at = None =>
           /\ elapsed(Session, now) = 0
           /\ wpm(Session, now).num = 0
           /\ accuracy(Session).num = 100 * accuracy(Session).den
    /\ correct_chars + incorrect_chars = 0 =>
           accuracy(Session).num = 100 * accuracy(Session).den

(***************************************************************************)
(* C10. elapsed, wpm, accuracy and remaining_seconds can be evaluated in   *)
(* every state (no division by zero) and a render pass, which calls all    *)
(* four, changes no session field; for a session that has not started      *)
(* elapsed() = 0, wpm() = 0 and accuracy() = 100, and accuracy() = 100     *)
(* whenever correct_chars + incorrect_chars = 0.                           *)
(***************************************************************************)
C10_Metrics ==
    /\ []C10_Values
    /\ [][(pc = "render" /\ pc' = "getch") => UNCHANGED fields]_vars

\* render has run on a session that has not started, after time has passed.
C10_Witness ==
    /\ last = "render"
    /\ started_at = None
    /\ now > 0

\* A session as TypingSession.__init__ leaves it.
C11_Fresh ==
    /\ Len(words) = nwords(cfg)
    /\ \A i \in 1..Len(words) : words[i].typed = <<>>
    /\ index = 0
    /\ view_start = 0
    /\ counters = <<0, 0, 0, 0>>
    /\ started_at = None
    /\ ended_at = None

(***************************************************************************)
(* C11. A restart (TAB in any state, or any key other than ESC on a        *)
(* Finished session) leaves a brand-new session in state NotStarted: index *)
(* 0, view_start 0, the four counters 0, started_at and ended_at unset,    *)
(* every typed string empty, for the same config; the key that triggered   *)
(* it is not applied.  A key that reaches a Finished session does nothing  *)
(* else.                                                                   *)
(***************************************************************************)
C11_RestartIsFresh ==
    [][/\ (pc = "getch" /\ last' \in {"restart", "restart_finished"})
              => (C11_Fresh' /\ cfg' = cfg)
       /\ (pc = "getch" /\ pc' = "render" /\ is_finished(Session))
              => \/ last' \in {"restart", "restart_finished"}
                 \/ last' = "idle" /\ UNCHANGED fields]_vars

\* A key other than TAB has restarted a Finished session (which had a start
\* and an end time) after time has passed.
C11_Witness ==
    /\ last = "restart_finished"
    /\ C11_Fresh
    /\ now > 0

\* The typing area of a terminal of size sz, as render passes it.
viewport_of(sz) == [height |-> sz.h - 4, width |-> sz.w - 2]

(***************************************************************************)
(* C12 as stated. When the scroll search of a layout pass finds no start   *)
(* from which the current word is placed inside the viewport, the pass     *)
(* reports a layout failure instead of accepting a view_start: after every *)
(* layout pass either the stored view_start is one the search accepts or a *)
(* failure was reported.                                                   *)
(***************************************************************************)
C12_SearchFailureReported ==
    [][\A sz \in TermSizes :
        (is_running(Session) /\ Render(sz))
        => \/ search_accepts(Session', view_start',
                             viewport_of(sz).height, viewport_of(sz).width)
           \/ raised' # "None"]_vars

(***************************************************************************)
(* C13 as stated. Whatever viewports earlier layout passes ran with, every *)
(* layout pass with height >= 1 and width >= the longest word places the   *)
(* current word at a row in [0, height).                                   *)
(***************************************************************************)
C13_FollowsAfterResize ==
    [][\A sz \in FitTermSizes(Session) :
        (is_running(Session) /\ has_current_word(Session) /\ Render(sz))
        => \E y \in rows_of(Session', index', viewport_of(sz)) :
               0 <= y /\ y < viewport_of(sz).height]_vars

(***************************************************************************)
(* C14. A layout pass changes no session field other than view_start and   *)
(* never decreases view_start: the value it stores is the smallest         *)
(* candidate >= the stored view_start from which the current word is       *)
(* placed in the viewport (when the search finds none, the stored value    *)
(* plus the number of candidates tried).                                   *)
(***************************************************************************)
C14_LayoutFrame ==
    [][last' = "draw_words_area" =>
        /\ UNCHANGED fields
        /\ cfg' = cfg
        /\ view_start' >= view_start
        /\ \A vp \in Viewports :
               view_start' = scroll_search(Session, vp.height, vp.width) =>
                   /\ \A c \in view_start ..
                                 Min(view_start' - 1, Len(words) - 1) :
                          ~search_accepts(Session, c, vp.height, vp.width)
                   /\ \/ search_accepts(Session, view_start',
                                        vp.height, vp.width)
                      \/ view_start' = view_start + SearchCap]_vars

\* A layout pass has scrolled past the first word but not up to the current
\* word (the third).
C14_Witness ==
    /\ last = "draw_words_area"
    /\ view_start = 1
    /\ index = 2
    /\ has_current_word(Session)

\* Greedy wrapping of the positions ps that layout returns from start index
\* start for a viewport vp.
C15_Greedy(ps, start, vp) ==
    \A k \in DOMAIN ps :
        LET idx == ps[k][1]
            y == ps[k][2]
            x == ps[k][3]
        IN  /\ idx = start + k - 1
            /\ 0 <= y /\ y < vp.height
            /\ x > 0 => x + Len(words[idx + 1].target) <= vp.width
            /\ IF k = 1 THEN x = 0
               ELSE /\ ps[k - 1][2] <= y
                    /\ ps[k - 1][2] < y => x = 0
                    /\ ps[k - 1][2] = y =>
                           x = ps[k - 1][3] + Len(words[idx].target) + 1

(***************************************************************************)
(* C15. For any start index, width and height, layout places a contiguous  *)
(* run of words start, start + 1, ... in order; every placed word has a    *)
(* row in [0, height); rows never decrease along the run; the first word   *)
(* of each row is at column 0; each later word of a row starts one column  *)
(* after the end of the word before it; and every word placed at a column  *)
(* > 0 ends at or before column width.                                     *)
(***************************************************************************)
C15_GreedyWrapping ==
    \A vp \in Viewports : \A start \in 0..Len(words) :
        C15_Greedy(layout(Session, start, vp.height, vp.width).positions,
                   start, vp)

\* After a layout pass, the words from word 0 fill two rows of a viewport of
\* width 5: two words on row 0 and the current word, wrapped, on row 1.
C15_Witness ==
    /\ last = "draw_words_area"
    /\ view_start = 0
    /\ index = 2
    /\ LET ps == layout(Session, 0, 2, 5).positions
       IN  /\ Len(ps) = 3
           /\ ps[2][2] = 0 /\ ps[2][3] > 0
           /\ ps[3][2] = 1

(***************************************************************************)
(* C16 as stated. For every height >= 1, a word longer than width is still *)
(* placed by layout, at column 0 of its line: when the layout starts at    *)
(* such a word (so that it is the first word of row 0) the word is placed  *)
(* at row 0, column 0; it does not stop the layout and no empty row is     *)
(* put before it.                                                          *)
(***************************************************************************)
C16_OverWideWordPlaced ==
    [][\A vp \in Viewports :
        (last' = "draw_words_area" /\ vp.height >= 1 /\ CallDrawWordsArea(vp))
        => \A start \in 0..(Len(words) - 1) :
               Len(words[start + 1].target) > vp.width =>
                   LET ps == layout(Session', start,
                                    vp.height, vp.width).positions
                   IN  ps # <<>> /\ ps[1] = <<start, 0, 0>>]_vars

\* The correct and incorrect characters of the first n words of ws, each
\* judged by the string it holds: the positions where typed and target agree,
\* and the rest of the longer of the two.
RECURSIVE C17_Judged(_, _)
C17_Judged(ws, n) ==
    IF n = 0 THEN <<0, 0>>
    ELSE LET r == C17_Judged(ws, n - 1)
             t == ws[n].typed
             g == ws[n].target
         IN  <<r[1] + matches(t, g), r[2] + Max(Len(t), Len(g)) - matches(t, g)>>

(***************************************************************************)
(* C17. Only the final submitted string is judged: whatever mix of         *)
(* printable characters and backspaces led to them, correct_chars and      *)
(* incorrect_chars are what the strings the submitted words hold give      *)
(* against their targets, and completed_words is the number of submitted   *)
(* words; so two keystroke sequences that leave the same string before the *)
(* submit key produce the same increments, and a mistake that was          *)
(* backspaced away is neither penalised nor rewarded.                      *)
(***************************************************************************)
C17_FinalStringJudged ==
    /\ completed_words = index
    /\ <<correct_chars, incorrect_chars>> = C17_Judged(words, index)

\* Target "a" was submitted as "a" after three keystrokes: a character was
\* typed and removed before the a.
C17_Witness ==
    /\ last = "handle_key"
    /\ index = 1
    /\ total_keystrokes = 3
    /\ words[1] = [target |-> <<97>>, typed |-> <<97>>]
    /\ correct_chars = 1
    /\ incorrect_chars = 0

C19_ViewStartAtMostIndex == view_start <= index

(***************************************************************************)
(* C20 as stated. In time mode a keystroke the loop handles when the       *)
(* elapsed time has already reached the configured seconds is not counted: *)
(* it changes no typed string, index or counter, and the session becomes   *)
(* Finished with the counters it had before the keystroke.                 *)
(***************************************************************************)
C20_LateKeyNotCounted ==
    [][\A ch \in FewKeys :
        (/\ cfg.mode = "time"
         /\ is_running(Session)
         /\ elapsed(Session, now) >= cfg.seconds
         /\ Key(ch))
        => /\ words' = words
           /\ index' = index
           /\ counters' = counters
           /\ is_finished(Session)']_vars

====
